---------------------------- MODULE Spec2Model ----------------------------
(* A model of the video upload pipeline of the tubely server:             *)
(*   src/handler_upload_video.go      handlerUploadVideo,                 *)
(*                                    getVideoAspectRatio, abs,           *)
(*                                    processVideoForFastStart            *)
(* Each request is a process that walks through the handler statement by  *)
(* statement; the disk, the metadata store and the object store are       *)
(* shared between the requests.                                           *)
EXTENDS Integers, Sequences, FiniteSets, TLC

(**************************************************************************)
(* float64 arithmetic, as far as getVideoAspectRatio uses it.             *)
(* A non-negative float64 in the range the ratios live in is a sequence   *)
(* of GridBits binary digits, most significant first: IntBits digits      *)
(* before the binary point and FracBits after it.  Every quotient of two  *)
(* dimensions below 2^DimBits has its 53 significant digits and the       *)
(* digit after them on this grid, so rounding is computed exactly as      *)
(* IEEE-754 round-to-nearest-even does it.                                *)
(**************************************************************************)
DimBits == 11
MantissaBits == 53
IntBits == DimBits
FracBits == DimBits + MantissaBits
GridBits == IntBits + FracBits

Pow2(n) == IF n <= 0 THEN 1 ELSE 2 ^ n

(* Digit i (1 = most significant) of the integer w written on the grid.  *)
IntDigit(w, i) == IF i <= IntBits THEN (w \div Pow2(IntBits - i)) % 2 ELSE 0

(* Long division of w by h over the digits lo..hi, entered with the      *)
(* remainder r: the digits of the quotient and the remainder left.  The   *)
(* range is halved, left half first, so the nesting stays shallow.        *)
RECURSIVE DivDigits(_, _, _, _, _)
DivDigits(w, h, lo, hi, r) ==
    IF lo = hi
    THEN LET r2 == 2 * r + IntDigit(w, lo)
         IN  IF r2 >= h
             THEN [digits |-> <<1>>, rem |-> r2 - h]
             ELSE [digits |-> <<0>>, rem |-> r2]
    ELSE LET mid   == (lo + hi) \div 2
             left  == DivDigits(w, h, lo, mid, r)
             right == DivDigits(w, h, mid + 1, hi, left.rem)
         IN  [digits |-> left.digits \o right.digits, rem |-> right.rem]

(* Position of the leading 1 of a digit sequence, GridBits + 1 for zero. *)
Leading(d) ==
    IF \E i \in 1..GridBits : d[i] = 1
    THEN CHOOSE i \in 1..GridBits : d[i] = 1 /\ \A j \in 1..(i - 1) : d[j] = 0
    ELSE GridBits + 1

(* d + 1 in the digit at position k (carry propagates to the left).      *)
AddOneAt(d, k) ==
    LET z == CHOOSE j \in 0..k :
                 /\ (j = 0 \/ d[j] = 0)
                 /\ \A m \in (j + 1)..k : d[m] = 1
    IN  [i \in 1..GridBits |->
            IF i = z THEN 1
            ELSE IF i > z /\ i <= k THEN 0
            ELSE d[i]]

(* Round-to-nearest, ties to even, to MantissaBits significant digits.   *)
RoundToFloat(d, sticky) ==
    LET p    == Leading(d)
        last == p + MantissaBits - 1
    IN  IF last >= GridBits
        THEN d
        ELSE LET guard == d[last + 1]
                 rest  == sticky \/ \E i \in (last + 2)..GridBits : d[i] = 1
                 cut   == [i \in 1..GridBits |-> IF i <= last THEN d[i] ELSE 0]
             IN  IF guard = 1 /\ (rest \/ d[last] = 1)
                 THEN AddOneAt(cut, last)
                 ELSE cut

(* float64(w) / float64(h) for integers 0 < w, h < 2^DimBits.            *)
FloatDiv(w, h) ==
    LET q == DivDigits(w, h, 1, GridBits, 0)
    IN  RoundToFloat(q.digits, q.rem # 0)

(* a < b on floats of the grid.                                          *)
FloatLess(a, b) ==
    \E i \in 1..GridBits :
        /\ a[i] < b[i]
        /\ \A j \in 1..(i - 1) : a[j] = b[j]

(* The digits lo..hi of a - b, entered with the borrow c from the right; *)
(* the range is halved, right half first.                                 *)
RECURSIVE SubDigits(_, _, _, _, _)
SubDigits(a, b, lo, hi, c) ==
    IF lo = hi
    THEN LET t == a[lo] - b[lo] - c
         IN  IF t < 0
             THEN [digits |-> <<t + 2>>, borrow |-> 1]
             ELSE [digits |-> <<t>>, borrow |-> 0]
    ELSE LET mid   == (lo + hi) \div 2
             right == SubDigits(a, b, mid + 1, hi, c)
             left  == IF right.borrow = 1
                      THEN SubDigits(a, b, lo, mid, 1)
                      ELSE SubDigits(a, b, lo, mid, 0)
         IN  [digits |-> left.digits \o right.digits, borrow |-> left.borrow]

(* abs(a - b) on float64: the difference is rounded, the sign dropped.   *)
FloatAbsDiff(a, b) ==
    IF FloatLess(a, b)
    THEN RoundToFloat(SubDigits(b, a, 1, GridBits, 0).digits, FALSE)
    ELSE RoundToFloat(SubDigits(a, b, 1, GridBits, 0).digits, FALSE)

(* The float64 constants 16.0/9.0, 9.0/16.0 and 0.2 of the source.       *)
SixteenNinths == FloatDiv(16, 9)
NineSixteenths == FloatDiv(9, 16)
Tolerance == FloatDiv(1, 5)

(* The classification of getVideoAspectRatio for non-zero dimensions.    *)
ClassifyRatio(width, height) ==
    LET ratio == FloatDiv(width, height)
    IN  IF width >= height
        THEN IF FloatLess(FloatAbsDiff(ratio, SixteenNinths), Tolerance)
             THEN "16:9" ELSE "other"
        ELSE IF FloatLess(FloatAbsDiff(ratio, NineSixteenths), Tolerance)
             THEN "9:16" ELSE "other"

(**************************************************************************)
(* The world of the handler.                                              *)
(**************************************************************************)
NumTokens == 2
NumTempNames == 2
SizeSlack == 1

(* Two requests are in flight.                                           *)
Requests == {"r1", "r2"}
Users == {"u1", "u2"}
VideoIDs == {"v1", "v2"}
Tokens == 1..NumTokens
TempNames == 1..NumTempNames
None == "none"
NoURL == <<>>
NoVideo == [ID |-> None, UserID |-> None, VideoURL |-> NoURL, ThumbnailURL |-> NoURL]

maxUploadSize == 1073741824
(* r.Body as the server hands it over: no ceiling on it.                 *)
Unlimited == 0
StatusOK == 200
StatusBadRequest == 400
StatusUnauthorized == 401
(* An unknown video answered like a missing credential.                  *)
NotFoundAsUnauthorized == StatusUnauthorized
StatusNotFound == 404
StatusInternalServerError == 500

(* cfg.s3Bucket and cfg.s3Region.                                        *)
s3Bucket == "tubely-bucket"
s3Region == "us-east-2"

(* Sizes of request bodies: at the ceiling and beyond it.                *)
BodySizes == maxUploadSize..(maxUploadSize + SizeSlack)

(* File names a client may give the video part.                          *)
UploadName == "clip.mp4"
FileNames == {UploadName, "../../etc/passwd"}

(* Content-Type values a client may declare for the video part.          *)
DeclaredTypes ==
    { "video/mp4", "VIDEO/MP4; codecs=avc1", "video/webm",
      "video/mp4; codecs", "" }

(* A parser that hands the declared value back as it is.                 *)
ParseMediaTypeVerbatim(v) == [mediaType |-> v, err |-> v = ""]

(* mime.ParseMediaType on the declared values: the media type is lower-  *)
(* cased and stripped of its parameters; a parameter without "=" is an   *)
(* error returned beside the media type, an empty value an error.        *)
ParseMediaType(v) ==
    CASE v = "video/mp4"              -> [mediaType |-> "video/mp4", err |-> FALSE]
      [] v = "VIDEO/MP4; codecs=avc1" -> [mediaType |-> "video/mp4", err |-> FALSE]
      [] v = "video/webm"             -> [mediaType |-> "video/webm", err |-> FALSE]
      [] v = "video/mp4; codecs"      -> [mediaType |-> "video/mp4", err |-> TRUE]
      [] v = "image/png"              -> [mediaType |-> "image/png", err |-> FALSE]
      [] v = "IMAGE/JPEG"             -> [mediaType |-> "image/jpeg", err |-> FALSE]
      [] v = "image/png; q=1"         -> [mediaType |-> "image/png", err |-> FALSE]
      [] v = "image/gif"              -> [mediaType |-> "image/gif", err |-> FALSE]
      [] OTHER                        -> [mediaType |-> "", err |-> TRUE]

(* A check that forgets to compare the media type.                       *)
AnyParsedContentType(parsed) == ~parsed.err

(* Line 66: the condition under which the declared type is let through.  *)
AcceptedContentType(parsed) == ~parsed.err /\ parsed.mediaType = "video/mp4"

(* A handler that leaves the body as it is.                              *)
NoLimit == Unlimited

(* Line 25: the ceiling put on r.Body.                                   *)
InstalledLimit == maxUploadSize

(* http.MaxBytesReader(w, r.Body, limit), read to the end of a body of   *)
(* n bytes: at most limit bytes are delivered, then the read fails.      *)
MaxBytesRead(n, limit) ==
    [read |-> IF n > limit THEN limit ELSE n, err |-> n > limit]

(* A handler that lets every principal through.                         *)
OwnsAnything(video, userID) == TRUE

(* Line 52: the principal is the owner of the record.                    *)
Owns(video, userID) == video.UserID = userID

(* The metadata store: get(videoID) -> VideoRecord | NotFound.           *)
DbGetVideo(d, id) ==
    IF id \in DOMAIN d
    THEN [video |-> d[id], err |-> FALSE]
    ELSE [video |-> NoVideo, err |-> TRUE]

(* The metadata store: update(VideoRecord) writes the whole record.      *)
DbUpdateVideo(d, video) ==
    [id \in DOMAIN d |-> IF id = video.ID THEN video ELSE d[id]]

(* Paths are sequences of name parts; filePath + ".processing".          *)
TempPath(n) == <<"tubely-upload.mp4", n>>
OutputPath(filePath) == Append(filePath, ".processing")

(* os.Remove: the path is gone afterwards (an error is ignored).         *)
OsRemove(d, path) == [q \in (DOMAIN d) \ {path} |-> d[q]]

(* Writing a file: the path exists afterwards with this content.         *)
OsWrite(d, path, content) ==
    [q \in (DOMAIN d) \cup {path} |-> IF q = path THEN content ELSE d[q]]

(* One deferred call, and the deferred calls of a handler run in the     *)
(* reverse order of their registration.                                  *)
RunDeferred(call, d) ==
    IF call.op = "Remove" THEN OsRemove(d, call.path) ELSE d

RECURSIVE RunDefers(_, _)
RunDefers(calls, d) ==
    IF calls = <<>>
    THEN d
    ELSE RunDefers(SubSeq(calls, 1, Len(calls) - 1),
                   RunDeferred(calls[Len(calls)], d))

(* A URL that addresses the bucket by path instead of by host name.      *)
ObjectURLPathStyle(bucket, region, key) ==
    <<"https://", "s3.", region, ".amazonaws.com/", bucket, "/">> \o key

(* fmt.Sprintf("https://%s.s3.%s.amazonaws.com/%s", bucket, region, key) *)
ObjectURL(bucket, region, key) ==
    <<"https://", bucket, ".s3.", region, ".amazonaws.com/">> \o key

(**************************************************************************)
(* The ffmpeg run of processVideoForFastStart copies the streams of the  *)
(* input to the output path.  It either completes, fails before the      *)
(* output is opened, or fails after part of the output is written; it    *)
(* never overwrites an existing output (no -y, no terminal).             *)
(**************************************************************************)
FfmpegOutcomes == {"ok", "failed", "failedPartial"}

RunFfmpeg(input, output, d, outcome) ==
    IF output \in DOMAIN d \/ input \notin DOMAIN d
    THEN [ok |-> FALSE, exit |-> "failed", disk |-> d]
    ELSE CASE outcome = "ok" ->
                [ok |-> TRUE, exit |-> "ok",
                 disk |-> OsWrite(d, output,
                             [kind |-> "faststart", of |-> d[input].of,
                              size |-> d[input].size])]
           [] outcome = "failedPartial" ->
                [ok |-> FALSE, exit |-> "failed",
                 disk |-> OsWrite(d, output,
                             [kind |-> "partial", of |-> d[input].of,
                              size |-> 0])]
           [] OTHER ->
                [ok |-> FALSE, exit |-> "failed", disk |-> d]

(* A transcoder that reports a failed run as a success of the input.     *)
processVideoSwallowingFailure(filePath, d, outcome) ==
    LET outputPath == OutputPath(filePath)
        run        == RunFfmpeg(filePath, outputPath, d, outcome)
    IN  IF ~run.ok
        THEN [path |-> filePath, err |-> FALSE, ran |-> run]
        ELSE [path |-> outputPath, err |-> FALSE, ran |-> run]

(* Lines 205-222: the output path on success, an error otherwise.        *)
processVideoForFastStart(filePath, d, outcome) ==
    LET outputPath == OutputPath(filePath)
        run        == RunFfmpeg(filePath, outputPath, d, outcome)
    IN  IF ~run.ok
        THEN [path |-> <<>>, err |-> TRUE, ran |-> run]
        ELSE [path |-> outputPath, err |-> FALSE, ran |-> run]

(**************************************************************************)
(* getVideoAspectRatio: what ffprobe printed is either nothing usable    *)
(* (the run failed, the output is no JSON) or a list of streams with     *)
(* their width and height.                                               *)
(**************************************************************************)
Stream(w, h) == [Width |-> w, Height |-> h]
NoProbe == [run |-> "none", json |-> "none", streams |-> <<>>]
ProbeFailed == [run |-> "failed", json |-> "none", streams |-> <<>>]
ProbeMalformed == [run |-> "ok", json |-> "malformed", streams |-> <<>>]
ProbeStreams(ss) == [run |-> "ok", json |-> "ok", streams |-> ss]

getVideoAspectRatio(out) ==
    IF out.run # "ok" THEN [ratio |-> "", err |-> TRUE]
    ELSE IF out.json # "ok" THEN [ratio |-> "", err |-> TRUE]
    ELSE IF Len(out.streams) = 0 THEN [ratio |-> "", err |-> TRUE]
    ELSE LET width  == out.streams[1].Width
             height == out.streams[1].Height
         IN  IF width = 0 \/ height = 0
             THEN [ratio |-> "", err |-> TRUE]
             ELSE [ratio |-> ClassifyRatio(width, height), err |-> FALSE]

(* Lines 103-108: the key prefix of an aspect ratio.                     *)
KeyPrefix(aspectRatio) ==
    IF aspectRatio = "16:9" THEN "landscape/"
    ELSE IF aspectRatio = "9:16" THEN "portrait/"
    ELSE "other/"

(* A handler that forgets the default of line 100.                       *)
AspectRatioUnchecked(got) == got.ratio

(* Lines 97-101: a classifier error makes the aspect ratio "other".      *)
AspectRatioOrOther(got) == IF got.err THEN "other" ELSE got.ratio

(* What ffprobe may print in the runs of the pipeline.                   *)
ProbeOutputs ==
    { ProbeFailed, ProbeMalformed, ProbeStreams(<<>>),
      ProbeStreams(<<Stream(0, 1080)>>),
      ProbeStreams(<<Stream(1920, 0)>>),
      ProbeStreams(<<Stream(1920, 1080), Stream(0, 0)>>),
      ProbeStreams(<<Stream(1080, 1920)>>) }

(**************************************************************************)
(* The state.                                                             *)
(*   pc[r]      where request r is in handlerUploadVideo                  *)
(*   loc[r]     the handler's frame: the request it reads, its local      *)
(*              variables, how ffmpeg ended and what ffprobe printed for  *)
(*              it; gone when the handler has returned                    *)
(*   defers[r]  the deferred calls registered so far                      *)
(*   resp[r]    the status written to the response, 0 while none is       *)
(*   hist[r]    what happened to the request: the step that failed, how   *)
(*              often each collaborator was invoked, the files it created, *)
(*              the ones of them on disk when the handler returned and    *)
(*              the media reference it wrote to the metadata store        *)
(*   disk       the files of the temp directory, path -> content          *)
(*   db         the metadata store, video id -> VideoRecord               *)
(*   store      the object store, key -> object                           *)
(**************************************************************************)
VARIABLES pc, loc, defers, resp, hist, disk, db, store

vars == <<pc, loc, defers, resp, hist, disk, db, store>>

NoCalls == [get |-> 0, update |-> 0, put |-> 0, transcode |-> 0, probe |-> 0]

(* The s3.PutObjectInput of lines 127-132 while none is built.           *)
NoPutInput == [Bucket |-> None, Key |-> <<>>, Body |-> <<>>, ContentType |-> None]

InitLoc ==
    [bodyLimit |-> Unlimited, bodySize |-> 0, videoID |-> None, userID |-> None,
     video |-> NoVideo, contentType |-> None, mediaType |-> None,
     fileSize |-> 0, ffmpeg |-> None, probe |-> NoProbe,
     tempFile |-> <<>>, processedPath |-> <<>>, aspectRatio |-> None,
     prefix |-> None, s3Key |-> <<>>, probePath |-> <<>>, randomBytes |-> 0,
     putInput |-> NoPutInput, fileName |-> None]

InitHist ==
    [failed |-> None, calls |-> NoCalls, created |-> {}, left |-> {},
     wrote |-> NoURL]

(* One video of user u1 exists; "v2" is an identifier of no video.       *)
InitDb ==
    [id \in {"v1"} |->
        [ID |-> id, UserID |-> "u1", VideoURL |-> NoURL, ThumbnailURL |-> NoURL]]

Init ==
    /\ pc = [r \in Requests |-> "start"]
    /\ loc = [r \in Requests |-> InitLoc]
    /\ defers = [r \in Requests |-> <<>>]
    /\ resp = [r \in Requests |-> 0]
    /\ hist = [r \in Requests |-> InitHist]
    /\ disk = <<>>
    /\ db = InitDb
    /\ store = <<>>

(* respondWithError(w, code, ...) followed by return: the status is      *)
(* written and the handler goes on to its deferred calls.                *)
RespondWithError(r, code) ==
    /\ resp' = [resp EXCEPT ![r] = code]
    /\ pc' = [pc EXCEPT ![r] = "return"]

Goto(r, label) ==
    /\ pc' = [pc EXCEPT ![r] = label]
    /\ resp' = resp

(* r.Body read to its end through the reader installed on it.            *)
ReadBody(n, limit) ==
    IF limit = Unlimited
    THEN [read |-> n, err |-> FALSE]
    ELSE MaxBytesRead(n, limit)

(* Lines 24-32: the ceiling is put on the body, the path value parsed.   *)
ParseVideoID(r) ==
    /\ pc[r] = "start"
    /\ \E ok \in BOOLEAN, id \in VideoIDs :
          IF ok
          THEN /\ loc' = [loc EXCEPT ![r].bodyLimit = InstalledLimit,
                                     ![r].videoID = id]
               /\ hist' = hist
               /\ Goto(r, "bearer")
          ELSE /\ loc' = [loc EXCEPT ![r].bodyLimit = InstalledLimit]
               /\ hist' = [hist EXCEPT ![r].failed = "videoID"]
               /\ RespondWithError(r, StatusBadRequest)
    /\ UNCHANGED <<defers, disk, db, store>>

(* Lines 34-38: auth.GetBearerToken.                                     *)
GetBearerToken(r) ==
    /\ pc[r] = "bearer"
    /\ \E ok \in BOOLEAN :
          IF ok
          THEN /\ hist' = hist
               /\ Goto(r, "jwt")
          ELSE /\ hist' = [hist EXCEPT ![r].failed = "bearer"]
               /\ RespondWithError(r, StatusUnauthorized)
    /\ UNCHANGED <<loc, defers, disk, db, store>>

(* Lines 40-44: auth.ValidateJWT yields the principal or fails.          *)
ValidateJWT(r) ==
    /\ pc[r] = "jwt"
    /\ \E u \in Users \cup {None} :
          IF u # None
          THEN /\ loc' = [loc EXCEPT ![r].userID = u]
               /\ hist' = hist
               /\ Goto(r, "getVideo")
          ELSE /\ loc' = loc
               /\ hist' = [hist EXCEPT ![r].failed = "jwt"]
               /\ RespondWithError(r, StatusUnauthorized)
    /\ UNCHANGED <<defers, disk, db, store>>

(* Lines 46-50: cfg.db.GetVideo; the handler keeps a copy of the record. *)
GetVideo(r) ==
    /\ pc[r] = "getVideo"
    /\ LET got == DbGetVideo(db, loc[r].videoID)
       IN  IF got.err
           THEN /\ loc' = loc
                /\ hist' = [hist EXCEPT ![r].failed = "getVideo",
                                        ![r].calls.get = @ + 1]
                /\ RespondWithError(r, StatusNotFound)
           ELSE /\ loc' = [loc EXCEPT ![r].video = got.video]
                /\ hist' = [hist EXCEPT ![r].calls.get = @ + 1]
                /\ Goto(r, "owner")
    /\ UNCHANGED <<defers, disk, db, store>>

(* A handler that goes on to the body without the ownership check.       *)
CheckOwnerSkipped(r) ==
    /\ pc[r] = "owner"
    /\ hist' = hist
    /\ Goto(r, "formFile")
    /\ UNCHANGED <<loc, defers, disk, db, store>>

(* Lines 52-55: the principal must own the video.                        *)
CheckOwner(r) ==
    /\ pc[r] = "owner"
    /\ IF ~Owns(loc[r].video, loc[r].userID)
       THEN /\ hist' = [hist EXCEPT ![r].failed = "owner"]
            /\ RespondWithError(r, StatusUnauthorized)
       ELSE /\ hist' = hist
            /\ Goto(r, "formFile")
    /\ UNCHANGED <<loc, defers, disk, db, store>>

(* Lines 57-62: r.FormFile("video") parses the multipart body, reading   *)
(* it to its end; the framing around the file part is not counted.  The  *)
(* part comes with the file name and the content type the client gave.   *)
FormFile(r, names) ==
    /\ pc[r] = "formFile"
    /\ \E n \in BodySizes, hasField \in BOOLEAN, declared \in DeclaredTypes,
          name \in names :
          LET body == ReadBody(n, loc[r].bodyLimit)
          IN  IF body.err \/ ~hasField
              THEN /\ loc' = [loc EXCEPT ![r].bodySize = n]
                   /\ defers' = defers
                   /\ hist' = [hist EXCEPT ![r].failed = "formFile"]
                   /\ RespondWithError(r, StatusBadRequest)
              ELSE /\ loc' = [loc EXCEPT ![r].bodySize = n,
                                         ![r].fileSize = body.read,
                                         ![r].fileName = name,
                                         ![r].contentType = declared]
                   /\ defers' = [defers EXCEPT ![r] =
                                    Append(@, [op |-> "Close", path |-> <<"video">>])]
                   /\ hist' = hist
                   /\ Goto(r, "contentType")
    /\ UNCHANGED <<disk, db, store>>

(* Lines 64-69: only video/mp4 is let through.                           *)
CheckContentType(r) ==
    /\ pc[r] = "contentType"
    /\ LET parsed == ParseMediaType(loc[r].contentType)
       IN  IF ~AcceptedContentType(parsed)
           THEN /\ loc' = loc
                /\ hist' = [hist EXCEPT ![r].failed = "contentType"]
                /\ RespondWithError(r, StatusBadRequest)
           ELSE /\ loc' = [loc EXCEPT ![r].mediaType = parsed.mediaType]
                /\ hist' = hist
                /\ Goto(r, "createTemp")
    /\ UNCHANGED <<defers, disk, db, store>>

(* A handler that stages every upload under one fixed name (os.Create).  *)
CreateTempFixedName(r) ==
    /\ pc[r] = "createTemp"
    /\ \/ /\ hist' = [hist EXCEPT ![r].failed = "createTemp"]
          /\ RespondWithError(r, StatusInternalServerError)
          /\ UNCHANGED <<loc, defers, disk>>
       \/ \E n \in {1} :
             /\ disk' = OsWrite(disk, TempPath(n),
                                [kind |-> "upload", of |-> r, size |-> 0])
             /\ loc' = [loc EXCEPT ![r].tempFile = TempPath(n)]
             /\ defers' = [defers EXCEPT ![r] =
                              @ \o << [op |-> "Remove", path |-> TempPath(n)],
                                      [op |-> "Close", path |-> TempPath(n)] >>]
             /\ hist' = [hist EXCEPT ![r].created = @ \cup {TempPath(n)}]
             /\ Goto(r, "copy")
    /\ UNCHANGED <<db, store>>

(* Lines 71-77: os.CreateTemp picks a name no file has, or fails.        *)
CreateTemp(r) ==
    /\ pc[r] = "createTemp"
    /\ \/ /\ hist' = [hist EXCEPT ![r].failed = "createTemp"]
          /\ RespondWithError(r, StatusInternalServerError)
          /\ UNCHANGED <<loc, defers, disk>>
       \/ \E n \in TempNames :
             /\ TempPath(n) \notin DOMAIN disk
             /\ disk' = OsWrite(disk, TempPath(n),
                                [kind |-> "upload", of |-> r, size |-> 0])
             /\ loc' = [loc EXCEPT ![r].tempFile = TempPath(n)]
             /\ defers' = [defers EXCEPT ![r] =
                              @ \o << [op |-> "Remove", path |-> TempPath(n)],
                                      [op |-> "Close", path |-> TempPath(n)] >>]
             /\ hist' = [hist EXCEPT ![r].created = @ \cup {TempPath(n)}]
             /\ Goto(r, "copy")
    /\ UNCHANGED <<db, store>>

(* Lines 79-82: io.Copy(tempFile, file).                                 *)
CopyToTemp(r) ==
    /\ pc[r] = "copy"
    /\ \E ok \in BOOLEAN :
          IF ok
          THEN /\ disk' = OsWrite(disk, loc[r].tempFile,
                                  [kind |-> "upload", of |-> r,
                                   size |-> loc[r].fileSize])
               /\ hist' = hist
               /\ Goto(r, "seek")
          ELSE /\ disk' = disk
               /\ hist' = [hist EXCEPT ![r].failed = "copy"]
               /\ RespondWithError(r, StatusInternalServerError)
    /\ UNCHANGED <<loc, defers, db, store>>

(* Lines 84-87: tempFile.Seek(0, io.SeekStart).                          *)
SeekStart(r) ==
    /\ pc[r] = "seek"
    /\ \E ok \in BOOLEAN :
          IF ok
          THEN /\ hist' = hist
               /\ Goto(r, "transcode")
          ELSE /\ hist' = [hist EXCEPT ![r].failed = "seek"]
               /\ RespondWithError(r, StatusInternalServerError)
    /\ UNCHANGED <<loc, defers, disk, db, store>>

(* Lines 89-95: the transcoder; only its success registers the removal   *)
(* of the processed file.                                                *)
ProcessVideo(r) ==
    /\ pc[r] = "transcode"
    /\ \E outcome \in FfmpegOutcomes :
          LET done == processVideoForFastStart(loc[r].tempFile, disk, outcome)
              made == (DOMAIN done.ran.disk) \ (DOMAIN disk)
          IN  /\ disk' = done.ran.disk
              /\ IF done.err
                 THEN /\ loc' = [loc EXCEPT ![r].ffmpeg = done.ran.exit]
                      /\ defers' = defers
                      /\ hist' = [hist EXCEPT ![r].failed = "transcode",
                                              ![r].calls.transcode = @ + 1,
                                              ![r].created = @ \cup made]
                      /\ RespondWithError(r, StatusInternalServerError)
                 ELSE /\ loc' = [loc EXCEPT ![r].processedPath = done.path,
                                            ![r].ffmpeg = done.ran.exit]
                      /\ defers' = [defers EXCEPT ![r] =
                                       Append(@, [op |-> "Remove", path |-> done.path])]
                      /\ hist' = [hist EXCEPT ![r].calls.transcode = @ + 1,
                                              ![r].created = @ \cup made]
                      /\ Goto(r, "aspect")
    /\ UNCHANGED <<db, store>>

(* Lines 97-108: the classifier on the staged file; its failure only     *)
(* makes the category "other".                                           *)
ClassifyVideo(r, outputs) ==
    /\ pc[r] = "aspect"
    /\ \E out \in outputs :
          LET got         == getVideoAspectRatio(out)
              aspectRatio == AspectRatioOrOther(got)
          IN  /\ loc' = [loc EXCEPT ![r].probe = out,
                                    ![r].probePath = loc[r].tempFile,
                                    ![r].aspectRatio = aspectRatio,
                                    ![r].prefix = KeyPrefix(aspectRatio)]
              /\ hist' = [hist EXCEPT ![r].calls.probe = @ + 1]
              /\ Goto(r, "random")
    /\ UNCHANGED <<defers, disk, db, store>>

(* A handler that names the object after the uploaded file.              *)
GenerateKeyFromFileName(r) ==
    /\ pc[r] = "random"
    /\ \/ /\ loc' = loc
          /\ hist' = [hist EXCEPT ![r].failed = "random"]
          /\ RespondWithError(r, StatusInternalServerError)
       \/ \E t \in Tokens :
             LET fileName == <<loc[r].fileName>>
             IN  /\ loc' = [loc EXCEPT ![r].randomBytes = t,
                                        ![r].s3Key = <<loc[r].prefix>> \o fileName]
                 /\ hist' = hist
                 /\ Goto(r, "open")
    /\ UNCHANGED <<defers, disk, db, store>>

(* Lines 110-117: 32 random bytes, their base64 text, the key.           *)
GenerateKey(r) ==
    /\ pc[r] = "random"
    /\ \/ /\ loc' = loc
          /\ hist' = [hist EXCEPT ![r].failed = "random"]
          /\ RespondWithError(r, StatusInternalServerError)
       \/ \E t \in Tokens :
             LET fileName == <<t, ".mp4">>
             IN  /\ loc' = [loc EXCEPT ![r].randomBytes = t,
                                        ![r].s3Key = <<loc[r].prefix>> \o fileName]
                 /\ hist' = hist
                 /\ Goto(r, "open")
    /\ UNCHANGED <<defers, disk, db, store>>

(* Lines 119-125: os.Open(processedPath).                                *)
OpenProcessed(r) ==
    /\ pc[r] = "open"
    /\ \E ok \in BOOLEAN :
          IF ok /\ loc[r].processedPath \in DOMAIN disk
          THEN /\ defers' = [defers EXCEPT ![r] =
                                Append(@, [op |-> "Close",
                                           path |-> loc[r].processedPath])]
               /\ hist' = hist
               /\ Goto(r, "put")
          ELSE /\ defers' = defers
               /\ hist' = [hist EXCEPT ![r].failed = "open"]
               /\ RespondWithError(r, StatusInternalServerError)
    /\ UNCHANGED <<loc, disk, db, store>>

(* A handler that uploads the staged file.                              *)
PutObjectStaged(r) ==
    /\ pc[r] = "put"
    /\ LET input == [Bucket |-> s3Bucket, Key |-> loc[r].s3Key,
                     Body |-> loc[r].tempFile,
                     ContentType |-> loc[r].mediaType]
           object == [Bucket |-> input.Bucket, Key |-> input.Key,
                      Body |-> disk[input.Body],
                      ContentType |-> input.ContentType, by |-> r]
       IN  /\ loc' = [loc EXCEPT ![r].putInput = input]
           /\ \E ok \in BOOLEAN :
                 IF ok
                 THEN /\ store' = OsWrite(store, input.Key, object)
                      /\ hist' = [hist EXCEPT ![r].calls.put = @ + 1]
                      /\ Goto(r, "update")
                 ELSE /\ store' = store
                      /\ hist' = [hist EXCEPT ![r].failed = "put",
                                              ![r].calls.put = @ + 1]
                      /\ RespondWithError(r, StatusInternalServerError)
    /\ UNCHANGED <<defers, disk, db>>

(* A handler that tries a failed put once more.                         *)
PutObjectRetrying(r) ==
    /\ pc[r] = "put"
    /\ LET input == [Bucket |-> s3Bucket, Key |-> loc[r].s3Key,
                     Body |-> loc[r].processedPath,
                     ContentType |-> loc[r].mediaType]
           object == [Bucket |-> input.Bucket, Key |-> input.Key,
                      Body |-> disk[input.Body],
                      ContentType |-> input.ContentType, by |-> r]
       IN  /\ loc' = [loc EXCEPT ![r].putInput = input]
           /\ \E ok \in BOOLEAN :
                 IF ok
                 THEN /\ store' = OsWrite(store, input.Key, object)
                      /\ hist' = [hist EXCEPT ![r].calls.put = @ + 1]
                      /\ Goto(r, "update")
                 ELSE \E again \in BOOLEAN :
                         IF again
                         THEN /\ store' = OsWrite(store, input.Key, object)
                              /\ hist' = [hist EXCEPT ![r].calls.put = @ + 2]
                              /\ Goto(r, "update")
                         ELSE /\ store' = store
                              /\ hist' = [hist EXCEPT ![r].failed = "put",
                                                      ![r].calls.put = @ + 2]
                              /\ RespondWithError(r, StatusInternalServerError)
    /\ UNCHANGED <<defers, disk, db>>

(* A handler that ignores the error of the put.                         *)
PutObjectUnchecked(r) ==
    /\ pc[r] = "put"
    /\ LET input == [Bucket |-> s3Bucket, Key |-> loc[r].s3Key,
                     Body |-> loc[r].processedPath,
                     ContentType |-> loc[r].mediaType]
           object == [Bucket |-> input.Bucket, Key |-> input.Key,
                      Body |-> disk[input.Body],
                      ContentType |-> input.ContentType, by |-> r]
       IN  /\ loc' = [loc EXCEPT ![r].putInput = input]
           /\ \E ok \in BOOLEAN :
                 IF ok
                 THEN /\ store' = OsWrite(store, input.Key, object)
                      /\ hist' = [hist EXCEPT ![r].calls.put = @ + 1]
                      /\ Goto(r, "update")
                 ELSE /\ store' = store
                      /\ hist' = [hist EXCEPT ![r].calls.put = @ + 1]
                      /\ Goto(r, "update")
    /\ UNCHANGED <<defers, disk, db>>

(* Lines 127-136: cfg.s3Client.PutObject with the opened file as body.   *)
PutObject(r) ==
    /\ pc[r] = "put"
    /\ LET input == [Bucket |-> s3Bucket, Key |-> loc[r].s3Key,
                     Body |-> loc[r].processedPath,
                     ContentType |-> loc[r].mediaType]
       IN  /\ loc' = [loc EXCEPT ![r].putInput = input]
           /\ \E ok \in BOOLEAN :
                 IF ok
                 THEN /\ store' =
                            OsWrite(store, input.Key,
                                    [Bucket |-> input.Bucket, Key |-> input.Key,
                                     Body |-> disk[input.Body],
                                     ContentType |-> input.ContentType,
                                     by |-> r])
                      /\ hist' = [hist EXCEPT ![r].calls.put = @ + 1]
                      /\ Goto(r, "update")
                 ELSE /\ store' = store
                      /\ hist' = [hist EXCEPT ![r].failed = "put",
                                              ![r].calls.put = @ + 1]
                      /\ RespondWithError(r, StatusInternalServerError)
    /\ UNCHANGED <<defers, disk, db>>

(* A handler that takes the object back when the update fails.           *)
UpdateVideoRollingBack(r) ==
    /\ pc[r] = "update"
    /\ LET url   == ObjectURL(s3Bucket, s3Region, loc[r].s3Key)
           video == [loc[r].video EXCEPT !.VideoURL = url]
       IN  /\ loc' = [loc EXCEPT ![r].video = video]
           /\ \E ok \in BOOLEAN :
                 IF ok
                 THEN /\ db' = DbUpdateVideo(db, video)
                      /\ store' = store
                      /\ hist' = [hist EXCEPT ![r].calls.update = @ + 1,
                                              ![r].wrote = db'[video.ID].VideoURL]
                      /\ resp' = [resp EXCEPT ![r] = StatusOK]
                      /\ pc' = [pc EXCEPT ![r] = "return"]
                 ELSE /\ db' = db
                      /\ store' = OsRemove(store, loc[r].s3Key)
                      /\ hist' = [hist EXCEPT ![r].failed = "update",
                                              ![r].calls.update = @ + 1]
                      /\ RespondWithError(r, StatusInternalServerError)
    /\ UNCHANGED <<defers, disk>>

(* A handler that reads the record once more before it writes it.       *)
UpdateVideoRefetching(r) ==
    /\ pc[r] = "update"
    /\ LET url   == ObjectURL(s3Bucket, s3Region, loc[r].s3Key)
           video == [DbGetVideo(db, loc[r].videoID).video EXCEPT !.VideoURL = url]
       IN  /\ loc' = [loc EXCEPT ![r].video = video]
           /\ \E ok \in BOOLEAN :
                 IF ok
                 THEN /\ db' = DbUpdateVideo(db, video)
                      /\ hist' = [hist EXCEPT ![r].calls.get = @ + 1,
                                              ![r].calls.update = @ + 1,
                                              ![r].wrote = db'[video.ID].VideoURL]
                      /\ resp' = [resp EXCEPT ![r] = StatusOK]
                      /\ pc' = [pc EXCEPT ![r] = "return"]
                 ELSE /\ db' = db
                      /\ hist' = [hist EXCEPT ![r].failed = "update",
                                              ![r].calls.get = @ + 1,
                                              ![r].calls.update = @ + 1]
                      /\ RespondWithError(r, StatusInternalServerError)
    /\ UNCHANGED <<defers, disk, store>>

(* Lines 138-146: the URL goes into the handler's copy of the record,    *)
(* the copy is written back, the record is sent.                         *)
UpdateVideo(r) ==
    /\ pc[r] = "update"
    /\ LET url   == ObjectURL(s3Bucket, s3Region, loc[r].s3Key)
           video == [loc[r].video EXCEPT !.VideoURL = url]
       IN  /\ loc' = [loc EXCEPT ![r].video = video]
           /\ \E ok \in BOOLEAN :
                 IF ok
                 THEN /\ db' = DbUpdateVideo(db, video)
                      /\ hist' = [hist EXCEPT ![r].calls.update = @ + 1,
                                              ![r].wrote = db'[video.ID].VideoURL]
                      /\ resp' = [resp EXCEPT ![r] = StatusOK]
                      /\ pc' = [pc EXCEPT ![r] = "return"]
                 ELSE /\ db' = db
                      /\ hist' = [hist EXCEPT ![r].failed = "update",
                                              ![r].calls.update = @ + 1]
                      /\ RespondWithError(r, StatusInternalServerError)
    /\ UNCHANGED <<defers, disk, store>>

(* The handler returns: its deferred calls run, last registered first.   *)
Return(r) ==
    /\ pc[r] = "return"
    /\ disk' = RunDefers(defers[r], disk)
    /\ defers' = [defers EXCEPT ![r] = <<>>]
    /\ hist' = [hist EXCEPT ![r].left = hist[r].created \cap DOMAIN disk']
    /\ loc' = [loc EXCEPT ![r] = InitLoc]
    /\ pc' = [pc EXCEPT ![r] = "done"]
    /\ UNCHANGED <<resp, db, store>>

Next ==
    \E r \in Requests :
        \/ ParseVideoID(r)
        \/ GetBearerToken(r)
        \/ ValidateJWT(r)
        \/ GetVideo(r)
        \/ CheckOwner(r)
        \/ FormFile(r, {UploadName})
        \/ CheckContentType(r)
        \/ CreateTemp(r)
        \/ CopyToTemp(r)
        \/ SeekStart(r)
        \/ ProcessVideo(r)
        \/ ClassifyVideo(r, ProbeOutputs)
        \/ GenerateKey(r)
        \/ OpenProcessed(r)
        \/ PutObject(r)
        \/ UpdateVideo(r)
        \/ Return(r)

Spec == Init /\ [][Next]_vars

(**************************************************************************)
(* The classifier alone: request r1 has reached line 97 with every       *)
(* earlier step succeeded, and ffprobe reports one stream of any width   *)
(* and height up to MaxDim.                                               *)
(**************************************************************************)
MaxDim == 80

DimensionOutputs ==
    { ProbeStreams(<<Stream(w, h)>>) : w \in 1..MaxDim, h \in 1..MaxDim }

InitAspect ==
    /\ pc = [r \in Requests |-> IF r = "r1" THEN "aspect" ELSE "start"]
    /\ loc = [r \in Requests |->
                IF r = "r1"
                THEN [InitLoc EXCEPT !.bodyLimit = maxUploadSize,
                                     !.bodySize = maxUploadSize,
                                     !.videoID = "v1",
                                     !.userID = "u1",
                                     !.video = InitDb["v1"],
                                     !.contentType = "video/mp4",
                                     !.mediaType = "video/mp4",
                                     !.fileSize = maxUploadSize,
                                     !.ffmpeg = "ok",
                                     !.tempFile = TempPath(1),
                                     !.processedPath = OutputPath(TempPath(1))]
                ELSE InitLoc]
    /\ defers = [r \in Requests |->
                   IF r = "r1"
                   THEN << [op |-> "Close", path |-> <<"video">>],
                           [op |-> "Remove", path |-> TempPath(1)],
                           [op |-> "Close", path |-> TempPath(1)],
                           [op |-> "Remove", path |-> OutputPath(TempPath(1))] >>
                   ELSE <<>>]
    /\ resp = [r \in Requests |-> 0]
    /\ hist = [r \in Requests |->
                 IF r = "r1"
                 THEN [InitHist EXCEPT !.calls.get = 1, !.calls.transcode = 1,
                                       !.created = {TempPath(1),
                                                    OutputPath(TempPath(1))}]
                 ELSE InitHist]
    /\ disk = OsWrite(OsWrite(<<>>, TempPath(1),
                              [kind |-> "upload", of |-> "r1",
                               size |-> maxUploadSize]),
                      OutputPath(TempPath(1)),
                      [kind |-> "faststart", of |-> "r1", size |-> maxUploadSize])
    /\ db = InitDb
    /\ store = <<>>

NextAspect == ClassifyVideo("r1", DimensionOutputs)

SpecAspect == InitAspect /\ [][NextAspect]_vars

(**************************************************************************)
(* The naming of the object: two videos of two owners exist, each        *)
(* request has been authorized for one of them (lines 27-55) and goes on *)
(* from r.FormFile to the key of line 117, with any file name the client *)
(* may give.                                                              *)
(**************************************************************************)
InitDbTwoOwners ==
    [id \in VideoIDs |->
        [ID |-> id, UserID |-> IF id = "v1" THEN "u1" ELSE "u2",
         VideoURL |-> NoURL, ThumbnailURL |-> NoURL]]

InitKey ==
    /\ db = InitDbTwoOwners
    /\ pc = [r \in Requests |-> "formFile"]
    /\ \E ids \in [Requests -> VideoIDs] :
          loc = [r \in Requests |->
                    [InitLoc EXCEPT !.bodyLimit = maxUploadSize,
                                    !.videoID = ids[r],
                                    !.userID = db[ids[r]].UserID,
                                    !.video = db[ids[r]]]]
    /\ defers = [r \in Requests |-> <<>>]
    /\ resp = [r \in Requests |-> 0]
    /\ hist = [r \in Requests |-> [InitHist EXCEPT !.calls.get = 1]]
    /\ disk = <<>>
    /\ store = <<>>

NextKey ==
    \E r \in Requests :
        \/ FormFile(r, FileNames)
        \/ CheckContentType(r)
        \/ CreateTemp(r)
        \/ CopyToTemp(r)
        \/ SeekStart(r)
        \/ ProcessVideo(r)
        \/ ClassifyVideo(r, ProbeOutputs)
        \/ GenerateKey(r)

SpecKey == InitKey /\ [][NextKey]_vars

(**************************************************************************)
(* handlerUploadThumbnail, beside one video upload for the same store.   *)
(* A thumbnail request has its place in pc, its frame in loc, its status *)
(* in resp and its history in hist as a video request has; its deferred  *)
(* calls are two Close, which change nothing here, so that it is done    *)
(* with its response.  The file it writes is under cfg.assetsRoot.       *)
(**************************************************************************)
ThumbRequests == {"t1"}
VideoRequests == {"r1"}

assetsRoot == "./assets"
port == "8091"

ThumbTypes == {"image/png", "IMAGE/JPEG", "image/png; q=1", "image/gif", ""}

(* Lines 116-127: the extension of strings.ToLower(contentType).         *)
getExtensionFromContentType(contentType) ==
    CASE contentType = "image/png"  -> ".png"
      [] contentType = "IMAGE/JPEG" -> ".jpg"
      [] contentType = "image/gif"  -> ".gif"
      [] OTHER                      -> ""

InitThumbLoc ==
    [videoID |-> None, userID |-> None, video |-> NoVideo,
     contentType |-> None, mediaType |-> None, filename |-> <<>>]

InitThumbHist ==
    [failed |-> None, calls |-> [get |-> 0, update |-> 0], wrote |-> NoURL]

(* A status is written (respondWithError, http.Error, respondWithJSON)   *)
(* and the handler returns.                                               *)
ThumbRespond(t, code) ==
    /\ resp' = [resp EXCEPT ![t] = code]
    /\ pc' = [pc EXCEPT ![t] = "done"]

(* Lines 19-36: the path value, the bearer token, the JWT.               *)
ThumbAuthenticate(t) ==
    /\ pc[t] = "tStart"
    /\ \E idOk \in BOOLEAN, id \in VideoIDs, bearerOk \in BOOLEAN,
          u \in Users \cup {None} :
          IF ~idOk
          THEN /\ loc' = loc
               /\ hist' = [hist EXCEPT ![t].failed = "videoID"]
               /\ ThumbRespond(t, StatusBadRequest)
          ELSE IF ~bearerOk
          THEN /\ loc' = [loc EXCEPT ![t].videoID = id]
               /\ hist' = [hist EXCEPT ![t].failed = "bearer"]
               /\ ThumbRespond(t, StatusUnauthorized)
          ELSE IF u = None
          THEN /\ loc' = [loc EXCEPT ![t].videoID = id]
               /\ hist' = [hist EXCEPT ![t].failed = "jwt"]
               /\ ThumbRespond(t, StatusUnauthorized)
          ELSE /\ loc' = [loc EXCEPT ![t].videoID = id, ![t].userID = u]
               /\ hist' = hist
               /\ Goto(t, "tForm")
    /\ UNCHANGED <<defers, disk, db, store>>

(* Lines 40-64: the multipart form, its thumbnail part, the media type.  *)
ThumbParseForm(t) ==
    /\ pc[t] = "tForm"
    /\ \E formOk \in BOOLEAN, hasField \in BOOLEAN, declared \in ThumbTypes :
          LET parsed == ParseMediaType(declared)
          IN  IF ~formOk \/ ~hasField
              THEN /\ loc' = loc
                   /\ hist' = [hist EXCEPT ![t].failed = "formFile"]
                   /\ ThumbRespond(t, StatusBadRequest)
              ELSE IF parsed.err \/ parsed.mediaType \notin {"image/jpeg", "image/png"}
              THEN /\ loc' = [loc EXCEPT ![t].contentType = declared]
                   /\ hist' = [hist EXCEPT ![t].failed = "contentType"]
                   /\ ThumbRespond(t, StatusBadRequest)
              ELSE /\ loc' = [loc EXCEPT ![t].contentType = declared,
                                         ![t].mediaType = parsed.mediaType]
                   /\ hist' = hist
                   /\ Goto(t, "tGetVideo")
    /\ UNCHANGED <<defers, disk, db, store>>

(* Lines 66-70: cfg.db.GetVideo; the handler keeps a copy of the record. *)
ThumbGetVideo(t) ==
    /\ pc[t] = "tGetVideo"
    /\ LET got == DbGetVideo(db, loc[t].videoID)
       IN  IF got.err
           THEN /\ loc' = loc
                /\ hist' = [hist EXCEPT ![t].failed = "getVideo",
                                        ![t].calls.get = @ + 1]
                /\ ThumbRespond(t, StatusNotFound)
           ELSE /\ loc' = [loc EXCEPT ![t].video = got.video]
                /\ hist' = [hist EXCEPT ![t].calls.get = @ + 1]
                /\ Goto(t, "tOwner")
    /\ UNCHANGED <<defers, disk, db, store>>

(* Lines 72-75: the principal must own the video.                        *)
ThumbCheckOwner(t) ==
    /\ pc[t] = "tOwner"
    /\ IF loc[t].video.UserID # loc[t].userID
       THEN /\ hist' = [hist EXCEPT ![t].failed = "owner"]
            /\ ThumbRespond(t, StatusUnauthorized)
       ELSE /\ hist' = hist
            /\ Goto(t, "tSave")
    /\ UNCHANGED <<loc, defers, disk, db, store>>

(* Lines 77-103: the extension, the random name, the file under the      *)
(* assets root and the copy of the upload into it.                       *)
ThumbSave(t) ==
    /\ pc[t] = "tSave"
    /\ LET ext == getExtensionFromContentType(loc[t].contentType)
       IN  IF ext = ""
           THEN /\ hist' = [hist EXCEPT ![t].failed = "extension"]
                /\ ThumbRespond(t, StatusBadRequest)
                /\ UNCHANGED <<loc, disk>>
           ELSE \E randOk \in BOOLEAN, tok \in Tokens, createOk \in BOOLEAN,
                   copyOk \in BOOLEAN :
                   LET filename == <<tok, ext>>
                       fullPath == <<assetsRoot, "/">> \o filename
                   IN  IF ~randOk
                       THEN /\ hist' = [hist EXCEPT ![t].failed = "random"]
                            /\ ThumbRespond(t, StatusInternalServerError)
                            /\ UNCHANGED <<loc, disk>>
                       ELSE IF ~createOk
                       THEN /\ hist' = [hist EXCEPT ![t].failed = "create"]
                            /\ ThumbRespond(t, StatusInternalServerError)
                            /\ UNCHANGED <<loc, disk>>
                       ELSE IF ~copyOk
                       THEN /\ disk' = OsWrite(disk, fullPath,
                                              [kind |-> "thumbnail", of |-> t,
                                               size |-> 0])
                            /\ loc' = [loc EXCEPT ![t].filename = filename]
                            /\ hist' = [hist EXCEPT ![t].failed = "copy"]
                            /\ ThumbRespond(t, StatusInternalServerError)
                       ELSE /\ disk' = OsWrite(disk, fullPath,
                                              [kind |-> "thumbnail", of |-> t,
                                               size |-> 1])
                            /\ loc' = [loc EXCEPT ![t].filename = filename]
                            /\ hist' = hist
                            /\ Goto(t, "tUpdate")
    /\ UNCHANGED <<defers, db, store>>

(* Lines 105-113: the URL goes into the handler's copy of the record,    *)
(* the copy is written back, the record is sent.                         *)
ThumbUpdate(t) ==
    /\ pc[t] = "tUpdate"
    /\ LET url   == <<"http://localhost:", port, "/assets/">> \o loc[t].filename
           video == [loc[t].video EXCEPT !.ThumbnailURL = url]
       IN  /\ loc' = [loc EXCEPT ![t].video = video]
           /\ \E ok \in BOOLEAN :
                 IF ok
                 THEN /\ db' = DbUpdateVideo(db, video)
                      /\ hist' = [hist EXCEPT ![t].calls.update = @ + 1,
                                              ![t].wrote = db'[video.ID].ThumbnailURL]
                      /\ ThumbRespond(t, StatusOK)
                 ELSE /\ db' = db
                      /\ hist' = [hist EXCEPT ![t].failed = "update",
                                              ![t].calls.update = @ + 1]
                      /\ ThumbRespond(t, StatusInternalServerError)
    /\ UNCHANGED <<defers, disk, store>>

InitThumb ==
    /\ pc = [r \in VideoRequests \cup ThumbRequests |->
                IF r \in VideoRequests THEN "start" ELSE "tStart"]
    /\ loc = [r \in VideoRequests \cup ThumbRequests |->
                IF r \in VideoRequests THEN InitLoc ELSE InitThumbLoc]
    /\ defers = [r \in VideoRequests \cup ThumbRequests |-> <<>>]
    /\ resp = [r \in VideoRequests \cup ThumbRequests |-> 0]
    /\ hist = [r \in VideoRequests \cup ThumbRequests |->
                 IF r \in VideoRequests THEN InitHist ELSE InitThumbHist]
    /\ disk = <<>>
    /\ db = InitDb
    /\ store = <<>>

NextThumb ==
    \/ \E r \in VideoRequests :
          \/ ParseVideoID(r)
          \/ GetBearerToken(r)
          \/ ValidateJWT(r)
          \/ GetVideo(r)
          \/ CheckOwner(r)
          \/ FormFile(r, {UploadName})
          \/ CheckContentType(r)
          \/ CreateTemp(r)
          \/ CopyToTemp(r)
          \/ SeekStart(r)
          \/ ProcessVideo(r)
          \/ ClassifyVideo(r, ProbeOutputs)
          \/ GenerateKey(r)
          \/ OpenProcessed(r)
          \/ PutObject(r)
          \/ UpdateVideo(r)
          \/ Return(r)
    \/ \E t \in ThumbRequests :
          \/ ThumbAuthenticate(t)
          \/ ThumbParseForm(t)
          \/ ThumbGetVideo(t)
          \/ ThumbCheckOwner(t)
          \/ ThumbSave(t)
          \/ ThumbUpdate(t)

SpecThumb == InitThumb /\ [][NextThumb]_vars

(**************************************************************************)
(* The claims.                                                            *)
(**************************************************************************)
Abs(i) == IF i < 0 THEN -i ELSE i

Returned(r) == pc[r] \in {"return", "done"}

NoPipelineCalls(r) ==
    /\ hist[r].calls.transcode = 0
    /\ hist[r].calls.probe = 0
    /\ hist[r].calls.put = 0
    /\ hist[r].calls.update = 0

ObjectsOf(r) == {k \in DOMAIN store : store[k].by = r}

(* C1: once handlerUploadVideo has returned, on success and on every     *)
(* failure branch, none of the temp files the request created (the       *)
(* staged file, the processed file) is on disk.                          *)
C1_NoTempFileAfterReturn ==
    \A r \in Requests : pc[r] = "done" => hist[r].left = {}

(* C2: every run ends in exactly one of two ways: 200 with the record's  *)
(* media reference set to the URL of the uploaded object, or an error    *)
(* status with the record not written, no object of the request in the   *)
(* store and no temp file of the request on disk.                        *)
C2_AllOrNothing ==
    \A r \in Requests :
        pc[r] = "done" =>
            \/ /\ resp[r] = 200
               /\ \E k \in ObjectsOf(r) :
                     hist[r].wrote = ObjectURL(s3Bucket, s3Region, k)
            \/ /\ resp[r] \in {400, 401, 404, 500}
               /\ hist[r].wrote = NoURL
               /\ ObjectsOf(r) = {}
               /\ hist[r].left = {}

(* C3: when ffmpeg fails, the handler answers 500, puts nothing into the *)
(* object store, does not call the metadata update and leaves the        *)
(* record unwritten.                                                      *)
TranscoderFailed(r) == loc[r].ffmpeg = "failed" \/ hist[r].failed = "transcode"

C3_TranscoderFailureIsFatal ==
    \A r \in Requests :
        TranscoderFailed(r) =>
            /\ Returned(r)
            /\ resp[r] = 500
            /\ hist[r].calls.put = 0
            /\ hist[r].calls.update = 0
            /\ hist[r].calls.probe = 0
            /\ hist[r].wrote = NoURL
            /\ ObjectsOf(r) = {}

C3_Witness ==
    \E r \in Requests :
        /\ pc[r] = "done"
        /\ hist[r].failed = "transcode"
        /\ resp[r] = 500
        /\ hist[r].calls.transcode = 1

(* C4: whatever way the classifier fails (ffprobe does not run, its      *)
(* output is no JSON, it lists no stream, a width or height is zero),    *)
(* the request goes on with the category "other" and the prefix          *)
(* "other/", and is answered 200 when no later step fails.               *)
ClassifierFailed(r) ==
    LET out == loc[r].probe
    IN  /\ out # NoProbe
        /\ \/ out.run = "failed"
           \/ out.json = "malformed"
           \/ Len(out.streams) = 0
           \/ out.streams[1].Width = 0
           \/ out.streams[1].Height = 0

C4_ClassifierFailureIsNotFatal ==
    \A r \in Requests :
        ClassifierFailed(r) =>
            /\ loc[r].aspectRatio = "other"
            /\ loc[r].prefix = "other/"
            /\ pc[r] = "random" => resp[r] = 0
            /\ loc[r].s3Key # <<>> => loc[r].s3Key[1] = "other/"
            /\ (pc[r] = "return" /\ hist[r].failed = None) =>
                   /\ resp[r] = 200
                   /\ \A k \in ObjectsOf(r) : k[1] = "other/"
            /\ (pc[r] = "return" /\ resp[r] # 200) =>
                   hist[r].failed \in {"random", "open", "put", "update"}

C4_Witness ==
    /\ pc["r1"] = "return" /\ resp["r1"] = 200
    /\ loc["r1"].probe = ProbeFailed
    /\ pc["r2"] = "return" /\ resp["r2"] = 200
    /\ loc["r2"].probe = ProbeStreams(<<Stream(0, 1080)>>)
    /\ \A r \in Requests : loc[r].s3Key[1] = "other/"

(* C5: a request whose video part declares a media type other than       *)
(* video/mp4 is rejected before the staged file is created: it creates   *)
(* no temp file and reaches neither the transcoder, the classifier, the  *)
(* object store nor the metadata update.                                  *)
DeclaresOtherType(r) ==
    /\ loc[r].contentType # None
    /\ loc[r].contentType \notin {"video/mp4", "VIDEO/MP4; codecs=avc1"}

C5_OtherTypeRejectedBeforeStaging ==
    \A r \in Requests :
        /\ DeclaresOtherType(r) =>
              /\ pc[r] \in {"contentType", "return"}
              /\ pc[r] = "return" => (resp[r] = 400 /\ hist[r].failed = "contentType")
              /\ hist[r].created = {}
              /\ loc[r].tempFile = <<>>
              /\ NoPipelineCalls(r)
        /\ hist[r].failed = "contentType" =>
              /\ resp[r] = 400
              /\ hist[r].created = {}
              /\ NoPipelineCalls(r)

C5_Witness ==
    \E r \in Requests :
        /\ pc[r] = "return"
        /\ loc[r].contentType = "video/webm"
        /\ resp[r] = 400
        /\ \E q \in Requests : q # r /\ loc[q].tempFile # <<>>
                                     /\ loc[q].contentType = "VIDEO/MP4; codecs=avc1"

(* C6: a valid token and an existing record of another owner give 401,   *)
(* no temp file, no transcoder run, no put and no update of the record.  *)
OwnerMismatch(r) ==
    loc[r].video # NoVideo /\ loc[r].video.UserID # loc[r].userID

C6_OwnerMismatchUnauthorized ==
    \A r \in Requests :
        /\ OwnerMismatch(r) =>
              /\ pc[r] \in {"owner", "return"}
              /\ pc[r] = "return" => (resp[r] = 401 /\ hist[r].failed = "owner")
              /\ hist[r].created = {}
              /\ NoPipelineCalls(r)
              /\ hist[r].wrote = NoURL
        /\ hist[r].failed = "owner" =>
              /\ resp[r] = 401
              /\ hist[r].created = {}
              /\ NoPipelineCalls(r)
              /\ hist[r].wrote = NoURL

C6_Witness ==
    \E r \in Requests :
        /\ pc[r] = "return"
        /\ loc[r].userID = "u2"
        /\ loc[r].video.UserID = "u1"
        /\ resp[r] = 401

(* C7: for positive width and height of the first stream the prefix is   *)
(* "landscape/" exactly when width >= height and |width/height - 16/9|   *)
(* < 0.2, "portrait/" exactly when height > width and                    *)
(* |width/height - 9/16| < 0.2, and "other/" otherwise (the comparisons  *)
(* in exact arithmetic: |w/h - 16/9| < 1/5 is 5*|9w - 16h| < 9h, and     *)
(* |w/h - 9/16| < 1/5 is 5*|16w - 9h| < 16h).                            *)
ExactCategory(w, h) ==
    IF w >= h /\ 5 * Abs(9 * w - 16 * h) < 9 * h THEN "landscape/"
    ELSE IF h > w /\ 5 * Abs(16 * w - 9 * h) < 16 * h THEN "portrait/"
    ELSE "other/"

C7_CategoryByExactRatio ==
    \A r \in Requests :
        (/\ Len(loc[r].probe.streams) > 0
         /\ loc[r].probe.streams[1].Width > 0
         /\ loc[r].probe.streams[1].Height > 0)
        => loc[r].prefix = ExactCategory(loc[r].probe.streams[1].Width,
                                         loc[r].probe.streams[1].Height)

(* C8: the metadata get is invoked exactly once in every run, and the    *)
(* update exactly once in every run answered 200.                        *)
C8_ExactlyOneGet ==
    \A r \in Requests :
        pc[r] = "done" =>
            /\ hist[r].calls.get = 1
            /\ resp[r] = 200 => hist[r].calls.update = 1

(* C8, amended: the get is invoked at most once, exactly once in the     *)
(* runs whose video identifier parses and whose token is found and       *)
(* valid and never in the others; the update exactly once in every run   *)
(* answered 200 and never more than once.                                 *)
C8_OneGetAfterAuthentication ==
    \A r \in Requests :
        /\ hist[r].calls.get \in {0, 1}
        /\ hist[r].calls.update \in {0, 1}
        /\ Returned(r) =>
              (hist[r].calls.get = 1 <=>
                   hist[r].failed \notin {"videoID", "bearer", "jwt"})
        /\ resp[r] = 200 => (hist[r].calls.get = 1 /\ hist[r].calls.update = 1)

C8_Witness ==
    /\ pc["r1"] = "done" /\ resp["r1"] = 200
    /\ hist["r1"].calls.get = 1 /\ hist["r1"].calls.update = 1
    /\ pc["r2"] = "done" /\ hist["r2"].failed = "jwt"
    /\ hist["r2"].calls.get = 0

(* C9: every failing run sends the status of its failure class: 400 for  *)
(* a bad video identifier, a missing or unreadable video field and an    *)
(* unsupported type; 401 for a missing or invalid token and a foreign    *)
(* record; 404 for an unknown video; 500 for temp file, transcoder,      *)
(* random token, open, put and update failures; 200 only when no step    *)
(* failed.                                                                *)
StatusOfFailure(step) ==
    CASE step \in {"videoID", "formFile", "contentType"} -> 400
      [] step \in {"bearer", "jwt", "owner"} -> 401
      [] step = "getVideo" -> 404
      [] step \in {"createTemp", "copy", "seek", "transcode", "random",
                   "open", "put", "update"} -> 500
      [] OTHER -> 200

C9_StatusOfFailureClass ==
    \A r \in Requests :
        /\ Returned(r) => resp[r] = StatusOfFailure(hist[r].failed)
        /\ ~Returned(r) => (resp[r] = 0 /\ hist[r].failed = None)
        /\ (loc[r].videoID = "v2" /\ hist[r].calls.get = 1) => resp[r] = 404

C9_Witness ==
    /\ pc["r1"] = "done" /\ hist["r1"].failed = "getVideo" /\ resp["r1"] = 404
    /\ pc["r2"] = "done" /\ hist["r2"].failed = "update" /\ resp["r2"] = 500

(* C10: a body beyond the ceiling of 1 GiB is answered with a 4xx, the   *)
(* ceiling is on the body before a byte of it is read, no staged file    *)
(* is larger than the ceiling, and transcoder, put and update are not    *)
(* reached.                                                               *)
C10_OversizedBodyRejected ==
    /\ \A r \in Requests :
          /\ loc[r].bodySize > 1073741824 =>
                /\ pc[r] = "return"
                /\ resp[r] \in 400..499
                /\ hist[r].created = {}
                /\ NoPipelineCalls(r)
          /\ loc[r].bodySize > 0 => loc[r].bodyLimit = 1073741824
    /\ \A path \in DOMAIN disk : disk[path].size <= 1073741824

C10_Witness ==
    \E r \in Requests :
        /\ pc[r] = "return"
        /\ loc[r].bodySize = 1073741824 + 1
        /\ resp[r] = 400
        /\ \E q \in Requests : q # r /\ loc[q].tempFile \in DOMAIN disk
                                     /\ disk[loc[q].tempFile].size = 1073741824

(* C11: a run answered 200 has written to the record the URL made of the *)
(* configured bucket, the configured region and the key handed to its    *)
(* one, successful put; the key is <prefix><token>.mp4 with the prefix   *)
(* of the category the request was classified to (landscape/ for a body  *)
(* of 1920x1080).                                                         *)
PrefixOfCategory(aspectRatio) ==
    CASE aspectRatio = "16:9" -> "landscape/"
      [] aspectRatio = "9:16" -> "portrait/"
      [] aspectRatio = "other" -> "other/"

C11_ReferenceIsUrlOfPutKey ==
    \A r \in Requests :
        (pc[r] = "return" /\ resp[r] = 200) =>
            LET key == loc[r].putInput.Key
            IN  /\ hist[r].calls.put = 1
                /\ hist[r].failed = None
                /\ key \in DOMAIN store
                /\ store[key].Bucket = "tubely-bucket"
                /\ hist[r].wrote =
                      <<"https://", "tubely-bucket", ".s3.", "us-east-2",
                        ".amazonaws.com/">> \o key
                /\ key = <<PrefixOfCategory(loc[r].aspectRatio),
                           loc[r].randomBytes, ".mp4">>
                /\ (/\ Len(loc[r].probe.streams) > 0
                    /\ loc[r].probe.streams[1] = Stream(1920, 1080))
                   => key[1] = "landscape/"
                /\ (/\ Len(loc[r].probe.streams) > 0
                    /\ loc[r].probe.streams[1] = Stream(1080, 1920))
                   => key[1] = "portrait/"

C11_Witness ==
    \E r \in Requests :
        /\ pc[r] = "done"
        /\ resp[r] = 200
        /\ \E t \in Tokens :
              /\ <<"landscape/", t, ".mp4">> \in DOMAIN store
              /\ hist[r].wrote =
                    <<"https://", "tubely-bucket", ".s3.", "us-east-2",
                      ".amazonaws.com/", "landscape/", t, ".mp4">>
              /\ db["v1"].VideoURL = hist[r].wrote

(* C12: only a declared content type that is exactly video/mp4 passes    *)
(* the check; every other declared value is answered 400.                *)
PastContentType(r) == loc[r].contentType # None /\ pc[r] # "contentType"

C12_ExactEquality ==
    \A r \in Requests :
        PastContentType(r) =>
            IF loc[r].contentType = "video/mp4"
            THEN hist[r].failed # "contentType"
            ELSE /\ pc[r] = "return"
                 /\ resp[r] = 400
                 /\ hist[r].failed = "contentType"

(* C12, amended: the declared value passes exactly when it parses to the *)
(* media type video/mp4, whatever its case and its parameters; a value   *)
(* that does not parse or parses to another type is answered 400.        *)
C12_MediaTypeEquality ==
    \A r \in Requests :
        PastContentType(r) =>
            IF loc[r].contentType \in {"video/mp4", "VIDEO/MP4; codecs=avc1"}
            THEN /\ hist[r].failed # "contentType"
                 /\ loc[r].mediaType = "video/mp4"
            ELSE /\ loc[r].contentType \in {"video/webm", "video/mp4; codecs", ""}
                 /\ pc[r] = "return"
                 /\ resp[r] = 400
                 /\ hist[r].failed = "contentType"
                 /\ loc[r].mediaType = None

C12_Witness ==
    /\ loc["r1"].contentType = "VIDEO/MP4; codecs=avc1"
    /\ pc["r1"] = "createTemp"
    /\ loc["r2"].contentType = "video/mp4; codecs"
    /\ pc["r2"] = "return"
    /\ resp["r2"] = 400

(* C13: the key is a function of the category and the random token       *)
(* alone: two runs that draw the same token and are classified alike     *)
(* get the same key, whatever file name, video, content type and         *)
(* principal they come with, and no part of the key is a value of the    *)
(* request.                                                               *)
HasKey(r) == loc[r].s3Key # <<>>

C13_KeyFromCategoryAndTokenOnly ==
    \A r, q \in Requests :
        HasKey(r) =>
            /\ Len(loc[r].s3Key) = 3
            /\ loc[r].s3Key[1] \in {"landscape/", "portrait/", "other/"}
            /\ loc[r].s3Key[2] \in 1..NumTokens
            /\ loc[r].s3Key[3] = ".mp4"
            /\ (/\ HasKey(q)
                /\ loc[q].randomBytes = loc[r].randomBytes
                /\ loc[q].aspectRatio = loc[r].aspectRatio)
               => loc[q].s3Key = loc[r].s3Key

C13_Witness ==
    /\ HasKey("r1") /\ HasKey("r2")
    /\ loc["r1"].s3Key = loc["r2"].s3Key
    /\ loc["r1"].fileName # loc["r2"].fileName
    /\ loc["r1"].videoID # loc["r2"].videoID
    /\ loc["r1"].userID # loc["r2"].userID
    /\ loc["r1"].contentType # loc["r2"].contentType

(* C14: under every interleaving a temp file is read, written and        *)
(* removed by the request that created it only: the paths a request      *)
(* stages to, transcodes, probes, opens, uploads and removes are files   *)
(* of its own, and a step of a request creates, changes and removes      *)
(* files of that request alone.                                           *)
PathsUsedBy(r) ==
    {loc[r].tempFile, loc[r].processedPath, loc[r].probePath,
     loc[r].putInput.Body}
        \cup {defers[r][i].path : i \in {j \in DOMAIN defers[r] :
                                            defers[r][j].op = "Remove"}}

OwnFilesOnly(r) ==
    /\ \A path \in PathsUsedBy(r) \cap DOMAIN disk : disk[path].of = r
    /\ loc[r].tempFile # <<>> => loc[r].tempFile \in DOMAIN disk
    /\ loc[r].processedPath # <<>> =>
          /\ loc[r].processedPath \in DOMAIN disk
          /\ loc[r].processedPath = Append(loc[r].tempFile, ".processing")

FilesTouched ==
    {path \in DOMAIN disk \cup DOMAIN disk' :
        \/ path \notin DOMAIN disk
        \/ path \notin DOMAIN disk'
        \/ disk[path] # disk'[path]}

C14_TempFilesPrivate ==
    [][ \A r \in Requests :
           /\ OwnFilesOnly(r)'
           /\ pc'[r] # pc[r] =>
                 \A path \in FilesTouched :
                    /\ path \in DOMAIN disk => disk[path].of = r
                    /\ path \in DOMAIN disk' => disk'[path].of = r
                    /\ path \in hist'[r].created ]_vars

C14_Witness ==
    /\ pc["r1"] = "open" /\ pc["r2"] = "put"
    /\ \A r \in Requests :
          /\ disk[loc[r].tempFile].of = r
          /\ disk[loc[r].processedPath].of = r
    /\ Cardinality(DOMAIN disk) = 4

(* C15: the declared content type is checked before the record is        *)
(* resolved and ownership authorized: a metadata get is issued only for  *)
(* a request whose content type has been accepted, and a request         *)
(* rejected for its content type has issued no get.                      *)
C15_ContentTypeBeforeGet ==
    \A r \in Requests :
        /\ pc[r] \in {"owner", "formFile"} => loc[r].mediaType = "video/mp4"
        /\ hist[r].failed = "contentType" => hist[r].calls.get = 0

(* C15, amended: the record is resolved and ownership authorized before  *)
(* the video field is read: an unknown video is answered 404 and a       *)
(* foreign one 401 after one get, with the body and its content type     *)
(* unread; the content type is read and checked only for a resolved      *)
(* record of the principal, so its 400 comes after exactly one get.      *)
C15_ResolveBeforeContentType ==
    \A r \in Requests :
        /\ loc[r].contentType # None =>
              /\ hist[r].calls.get = 1
              /\ loc[r].video.ID = loc[r].videoID
              /\ loc[r].video.UserID = loc[r].userID
        /\ hist[r].failed \in {"getVideo", "owner"} =>
              /\ hist[r].calls.get = 1
              /\ resp[r] = IF hist[r].failed = "getVideo" THEN 404 ELSE 401
              /\ loc[r].contentType = None
              /\ loc[r].bodySize = 0
        /\ hist[r].failed = "contentType" =>
              /\ hist[r].calls.get = 1
              /\ resp[r] = 400

C15_Witness ==
    /\ pc["r1"] = "return" /\ hist["r1"].failed = "getVideo"
    /\ loc["r1"].contentType = None /\ hist["r1"].calls.get = 1
    /\ pc["r2"] = "return" /\ hist["r2"].failed = "contentType"
    /\ loc["r2"].contentType = "video/webm" /\ hist["r2"].calls.get = 1

(* C16: when the put succeeded and the update fails, the handler answers *)
(* 500, leaves the object store as it is (the object stays, the record   *)
(* is not written) and still removes the staged and the processed file;  *)
(* no step ever takes an object out of the store.                        *)
C16_UpdateFailureKeepsObject ==
    [][ /\ DOMAIN store \subseteq DOMAIN store'
        /\ \A r \in Requests :
              /\ (pc[r] = "update" /\ hist'[r].failed = "update") =>
                    /\ pc'[r] = "return"
                    /\ resp'[r] = 500
                    /\ hist'[r].calls.put = 1
                    /\ store' = store
                    /\ loc'[r].putInput.Key \in DOMAIN store'
                    /\ db' = db
                    /\ hist'[r].wrote = NoURL
              /\ (pc[r] = "return" /\ hist[r].failed = "update") =>
                    /\ pc'[r] \in {"return", "done"}
                    /\ resp'[r] = 500
                    /\ pc'[r] = "done" =>
                          /\ store' = store
                          /\ db' = db
                          /\ Cardinality(hist'[r].created) = 2
                          /\ hist'[r].created \cap DOMAIN disk' = {}
                          /\ hist'[r].left = {} ]_vars

C16_Witness ==
    \E r \in Requests :
        /\ pc[r] = "done"
        /\ hist[r].failed = "update"
        /\ resp[r] = 500
        /\ ObjectsOf(r) # {}
        /\ db["v1"].VideoURL = NoURL
        /\ hist[r].created \cap DOMAIN disk = {}

(* C17: every put carries the processed file, never the staged one, as   *)
(* its body, the derived key, and as content type the content type the   *)
(* video field declared; the classifier is run on the staged path, and   *)
(* only after the transcoder has succeeded.                               *)
PutCarriesProcessedFile(r) ==
    /\ loc[r].putInput.Key = loc[r].s3Key
    /\ loc[r].putInput.Key # <<>>
    /\ loc[r].putInput.Body = Append(loc[r].tempFile, ".processing")
    /\ loc[r].putInput.Body # loc[r].tempFile
    /\ disk[loc[r].putInput.Body].kind = "faststart"

ClassifierOnStagedFile(r) ==
    hist[r].calls.probe > 0 =>
        /\ hist[r].calls.transcode = 1
        /\ hist[r].failed # "transcode"
        /\ pc[r] # "done" =>
              /\ loc[r].ffmpeg = "ok"
              /\ loc[r].probePath = loc[r].tempFile
              /\ loc[r].probePath # loc[r].processedPath
              /\ disk[loc[r].probePath].kind = "upload"

C18_NoRetry ==
    [][ \A r \in Requests :
           /\ hist'[r].calls.transcode <= 1
           /\ hist'[r].calls.probe <= 1
           /\ hist'[r].calls.put <= 1
           /\ hist'[r].calls.update <= 1
           /\ hist'[r].failed = "transcode" =>
                 /\ hist'[r].calls.transcode = 1
                 /\ hist'[r].calls.probe = 0
                 /\ hist'[r].calls.put = 0
                 /\ hist'[r].calls.update = 0
           /\ hist'[r].failed = "put" =>
                 /\ hist'[r].calls.put = 1
                 /\ hist'[r].calls.update = 0
           /\ hist'[r].failed = "update" => hist'[r].calls.update = 1
           /\ hist'[r].failed \in {"transcode", "put", "update"} =>
                 /\ resp'[r] = 500
                 /\ pc'[r] \in {"return", "done"}
           /\ hist[r].failed \in {"transcode", "put", "update"} =>
                 /\ hist'[r].calls = hist[r].calls
                 /\ hist'[r].failed = hist[r].failed
                 /\ resp'[r] = resp[r]
                 /\ store' = store \/ pc'[r] = pc[r]
                 /\ db' = db \/ pc'[r] = pc[r] ]_vars

C18_Witness ==
    /\ pc["r1"] = "done" /\ hist["r1"].failed = "put"
    /\ hist["r1"].calls = [get |-> 1, update |-> 0, put |-> 1,
                           transcode |-> 1, probe |-> 1]
    /\ pc["r2"] = "done" /\ hist["r2"].failed = "transcode"
    /\ hist["r2"].calls = [get |-> 1, update |-> 0, put |-> 0,
                           transcode |-> 1, probe |-> 0]

(* C19: with any interleaving of the requests, a media reference the     *)
(* handler wrote to a record is the URL of a key under which the store   *)
(* holds an object.                                                       *)
ReferencesStoredObject(url) ==
    \E key \in DOMAIN store :
        url = <<"https://", "tubely-bucket", ".s3.", "us-east-2",
                ".amazonaws.com/">> \o key

C19_ReferenceHasObject ==
    /\ \A id \in DOMAIN db :
          db[id].VideoURL # NoURL => ReferencesStoredObject(db[id].VideoURL)
    /\ \A r \in Requests :
          /\ hist[r].wrote # NoURL => ReferencesStoredObject(hist[r].wrote)
          /\ hist[r].calls.update > 0 => hist[r].calls.put = 1
          /\ (pc[r] = "update" \/ hist[r].calls.update > 0) =>
                (pc[r] = "done" \/ loc[r].putInput.Key \in DOMAIN store)

C19_Witness ==
    /\ \A r \in Requests : pc[r] = "done" /\ resp[r] = 200
    /\ hist["r1"].wrote # hist["r2"].wrote
    /\ db["v1"].VideoURL = hist["r2"].wrote
    /\ Cardinality(DOMAIN store) = 2

(* C20: when a video upload and a thumbnail upload for the same video    *)
(* run side by side and both answer 200, the record ends with the media  *)
(* reference of the one and the thumbnail reference of the other:        *)
(* neither write of the whole record puts back a field as it was read.   *)
C20_BothReferencesKept ==
    \A r \in VideoRequests, t \in ThumbRequests :
        (/\ pc[r] = "done" /\ resp[r] = 200
         /\ pc[t] = "done" /\ resp[t] = 200)
        => /\ db["v1"].VideoURL = hist[r].wrote
           /\ db["v1"].ThumbnailURL = hist[t].wrote

=============================================================================
